---- MODULE Spec2Model ----
(***************************************************************************)
(* Time-locked savings contract (contracts/hello-world/src/lib.rs).        *)
(*                                                                         *)
(* The contract's storage, the token ledger it moves value on and the      *)
(* ledger clock are the state; every exported contract function is one     *)
(* action.  A contract function is written as an operator that takes the   *)
(* storage it reads and returns what it wrote, its Result, and the token   *)
(* transfers it made; the host frame around it (HostFrame) keeps those     *)
(* writes only when the function returned Ok.                              *)
(*                                                                         *)
(* Units.  TLC's integers are 32 bit, so times are counted in days, not    *)
(* seconds (MIN_LOCK_DURATION 86400 s = 1, SECONDS_PER_YEAR 31536000 s =   *)
(* 365, MAX_LOCK_DURATION 315360000 s = 3650), and the i128 / u64 ranges   *)
(* are cut to I128_MAX / U64_MAX.  Amounts and basis points are unscaled.  *)
(***************************************************************************)
EXTENDS Integers, Sequences, FiniteSets, TLC

-----------------------------------------------------------------------------
(* Bounds of the model *)

MaxTime == 2
MaxGoals == 2
I128_MAX == 100000000

(* Program constants *)

U64_MAX == 2147483647
MIN_LOCK_DURATION == 1
MAX_LOCK_DURATION == 3650
MAX_INTEREST_RATE == 5000
MAX_PENALTY == 5000
DEFAULT_PENALTY == 1000
BASIS_POINTS == 10000
SECONDS_PER_YEAR == 365

I128_MIN == (0 - I128_MAX) - 1

-----------------------------------------------------------------------------
(* Identities and the inputs the environment draws from *)

SELF == "contract"
Users == {"u1", "u2"}
AdminIds == {"adm"}
Addr == Users \cup AdminIds \cup {SELF}

GoalIds == 0 .. (MaxGoals - 1)
Keys == Users \X GoalIds
Times == 0 .. MaxTime

Deposit == 11000
Whale == I128_MAX - 20

Amounts == {0 - 1, 0, Deposit, Whale}
Durations == {MIN_LOCK_DURATION - 1, 2, MAX_LOCK_DURATION + 1}
Rates == {500, MAX_INTEREST_RATE + 1}
InitArgs ==
    { << "tokA", "adm", DEFAULT_PENALTY >>, << "tokB", "u1", MAX_PENALTY + 1 >> }
NewPenalties == {MAX_PENALTY, MAX_PENALTY + 1}

(* set_emergency_penalty arguments <<authorized, caller, new_penalty>> *)
PenaltyArgs ==
    ({TRUE} \X {"adm"} \X NewPenalties)
        \cup {<< TRUE, "u1", MAX_PENALTY >>, << FALSE, "adm", MAX_PENALTY >>}
Reentries == {"none", "withdraw", "emergency_withdraw"}

(* create_goal arguments <<authorized, <<owner, amount, lock_duration,      *)
(* interest_rate>> >>:                                                     *)
(* u1 deposits Deposit at 5%, u2 deposits its whole balance at 0.01% or 5%; *)
(* and every invalid value on its own                                      *)
ValidCreateArgs ==
    { << "u1", Deposit, 2, 500 >>, << "u2", Whale, 2, 1 >>, << "u2", Whale, 2, 500 >> }
CreateArgs ==
    ({TRUE} \X (
    ValidCreateArgs
        \cup {<< "u1", a, 2, 500 >> : a \in Amounts}
        \cup {<< "u1", Deposit, d, 500 >> : d \in Durations}
        \cup {<< "u1", Deposit, 2, r >> : r \in Rates}))
    \cup {<< FALSE, << "u1", Deposit, 2, 500 >> >>}

(* inputs of the interest formula: balances from nothing to the top of the *)
(* i128 range, rates from 0 to the maximum, elapsed times in days          *)
MaxElapsed == 5
Balances == {0, 1, Deposit, 7300, 3650000, Whale}
InterestRates == {0, 1, 500, MAX_INTEREST_RATE}
Elapsed == 0 .. MaxElapsed

(* authorization and re-entry of a withdrawal: an unauthorized call, and   *)
(* an authorized one with each re-entry                                    *)
WithdrawArgs == {<< FALSE, "none" >>} \cup ({TRUE} \X Reentries)

(* Token ledgers the contract can be deployed against: two depositors who  *)
(* hold one deposit each, or one depositor who holds nearly the whole      *)
(* i128 range.                                                             *)
InitialBalances ==
    { [a \in Addr |-> IF a = "u1" THEN 2 * Deposit ELSE IF a = "u2" THEN Whale ELSE 0] }

-----------------------------------------------------------------------------
(* Option<T>: <<>> is None, <<v>> is Some(v) *)

None == << >>
Some(v) == << v >>
IsSome(o) == o # << >>
Unwrap(o) == o[1]
UnwrapOr(o, d) == IF o = << >> THEN d ELSE o[1]

Abs(x) == IF x < 0 THEN 0 - x ELSE x

(* i128 checked arithmetic *)
wrapping_add(a, b) ==
    IF a + b > I128_MAX THEN Some(((a + b) - I128_MAX) + (I128_MIN - 1))
    ELSE IF a + b < I128_MIN THEN Some(((a + b) - I128_MIN) + (I128_MAX + 1))
    ELSE Some(a + b)

checked_add(a, b) ==
    IF a + b > I128_MAX \/ a + b < I128_MIN THEN None ELSE Some(a + b)

checked_sub(a, b) ==
    IF a - b > I128_MAX \/ a - b < I128_MIN THEN None ELSE Some(a - b)

checked_mul(a, b) ==
    IF a = 0 \/ b = 0 THEN Some(0)
    ELSE IF Abs(a) > I128_MAX \div Abs(b) THEN None
    ELSE Some(a * b)

checked_div(a, b) ==
    IF b = 0 \/ (a = I128_MIN /\ b = 0 - 1) THEN None
    ELSE IF (a >= 0) = (b > 0) THEN Some(Abs(a) \div Abs(b))
    ELSE Some(0 - (Abs(a) \div Abs(b)))

(* u64 checked arithmetic *)
checked_add_u64(a, b) == IF a + b > U64_MAX THEN None ELSE Some(a + b)

wrapping_sub_u64(a, b) ==
    IF a < b THEN Some((U64_MAX - (b - a)) + 1) ELSE Some(a - b)

checked_sub_u64(a, b) == IF a < b THEN None ELSE Some(a - b)

-----------------------------------------------------------------------------
(* State *)

VARIABLES
    now,         \* env.ledger().timestamp()
    instance,    \* instance storage: Token, Admin, EmergencyPenalty, GoalCounter
    goals,       \* persistent storage: StorageKey::Goal(owner, id) -> SavingsGoal
    userCount,   \* persistent storage: StorageKey::UserGoalCount(owner)
    bal,         \* the token contract's ledger
    paid,        \* history: payouts made to the owner, per goal key
    last,        \* history: the last invocation and its Result
    calc         \* the interest formula on its own: its inputs and results

vars == << now, instance, goals, userCount, bal, paid, last, calc >>

Store ==
    [instance |-> instance, goals |-> goals, userCount |-> userCount, bal |-> bal]

(* Results of a contract function: its error (or "Ok"), its return value,  *)
(* the storage and ledger as it left them, the transfers it made, the goal *)
(* keys it paid out, and the Result of a call nested in its transfer.      *)
Result(e, r, st, x, p, n) ==
    [err |-> e, ret |-> r, st |-> st, xfers |-> x, payouts |-> p, nested |-> n]

Ok(r, st) == Result("Ok", r, st, << >>, << >>, "none")
Err(e, st) == Result(e, 0, st, << >>, << >>, "none")

HostAuthError == "HostError(Auth)"
HostTransferError == "HostError(Transfer)"

(* The host frame of one contract invocation: a function that returns Err, *)
(* or traps in require_auth or in the token contract, has every storage    *)
(* write and transfer of the invocation discarded.                         *)
HostFrameNoRollback(pre, r) == r

HostFrame(pre, r) ==
    IF r.err = "Ok" THEN r
    ELSE [r EXCEPT !.st = pre, !.xfers = << >>, !.payouts = << >>]

(* token::Client::transfer: moves amount from one balance to another, and  *)
(* traps on a negative amount, an insufficient balance or a balance that   *)
(* leaves the i128 range.                                                  *)
token_transfer(st, from, to, amount) ==
    IF amount < 0 \/ st.bal[from] < amount THEN [ok |-> FALSE, st |-> st]
    ELSE IF from = to THEN [ok |-> TRUE, st |-> st]
    ELSE IF st.bal[to] > I128_MAX - amount THEN [ok |-> FALSE, st |-> st]
    ELSE [ok |-> TRUE,
          st |-> [st EXCEPT !.bal = [st.bal EXCEPT ![from] = @ - amount,
                                                   ![to] = @ + amount]]]

Xfer(from, to, amount) == [from |-> from, to |-> to, amount |-> amount]

-----------------------------------------------------------------------------
(* owner.require_auth(): the invocation carries the address's authorization *)

require_auth_skipped(auth) == TRUE

require_auth(auth) == auth

(* initialize *)

initialize_again(st, token, admin, emergency_penalty) ==
    IF emergency_penalty > MAX_PENALTY THEN Err("PenaltyTooHigh", st)
    ELSE Ok(0, [st EXCEPT !.instance =
                   [Token |-> Some(token), Admin |-> Some(admin),
                    EmergencyPenalty |-> Some(emergency_penalty),
                    GoalCounter |-> Some(0)]])

initialize_validate_first(st, token, admin, emergency_penalty) ==
    IF emergency_penalty > MAX_PENALTY THEN Err("PenaltyTooHigh", st)
    ELSE IF IsSome(st.instance.Token) THEN Err("AlreadyInitialized", st)
    ELSE Ok(0, [st EXCEPT !.instance =
                   [Token |-> Some(token), Admin |-> Some(admin),
                    EmergencyPenalty |-> Some(emergency_penalty),
                    GoalCounter |-> Some(0)]])

initialize(st, token, admin, emergency_penalty) ==
    IF IsSome(st.instance.Token) THEN Err("AlreadyInitialized", st)
    ELSE IF emergency_penalty > MAX_PENALTY THEN Err("PenaltyTooHigh", st)
    ELSE Ok(0, [st EXCEPT !.instance =
                   [Token |-> Some(token), Admin |-> Some(admin),
                    EmergencyPenalty |-> Some(emergency_penalty),
                    GoalCounter |-> Some(0)]])

(* create_goal *)

NewGoal_epoch(owner, amount, interest_rate, current_time, lock_duration, unlock_time) ==
    [owner |-> owner, principal |-> amount, interest_rate |-> interest_rate,
     start_time |-> current_time, lock_duration |-> lock_duration,
     unlock_time |-> unlock_time, accrued_interest |-> 0,
     last_compound_time |-> 0, is_active |-> TRUE]

NewGoal(owner, amount, interest_rate, current_time, lock_duration, unlock_time) ==
    [owner |-> owner, principal |-> amount, interest_rate |-> interest_rate,
     start_time |-> current_time, lock_duration |-> lock_duration,
     unlock_time |-> unlock_time, accrued_interest |-> 0,
     last_compound_time |-> current_time, is_active |-> TRUE]

create_goal_amount_last(st, t, auth, owner, amount, lock_duration, interest_rate) ==
    IF ~require_auth(auth) THEN Err(HostAuthError, st)
    ELSE IF lock_duration < MIN_LOCK_DURATION \/ lock_duration > MAX_LOCK_DURATION
        THEN Err("InvalidDuration", st)
    ELSE IF interest_rate > MAX_INTEREST_RATE THEN Err("RateTooHigh", st)
    ELSE LET unlock_time == checked_add_u64(t, lock_duration) IN
    IF unlock_time = None THEN Err("Overflow", st)
    ELSE IF st.instance.Token = None THEN Err("NotInitialized", st)
    ELSE IF amount <= 0 THEN Err("InvalidAmount", st)
    ELSE LET tr == token_transfer(st, owner, SELF, amount) IN
    IF ~tr.ok THEN Err(HostTransferError, st)
    ELSE LET goal_id == UnwrapOr(tr.st.instance.GoalCounter, 0)
             next_goal_id == checked_add_u64(goal_id, 1)
             goal == NewGoal(owner, amount, interest_rate, t, lock_duration,
                             Unwrap(unlock_time))
             user_count == UnwrapOr(tr.st.userCount[owner], 0)
    IN
    IF next_goal_id = None THEN Err("GoalOverflow", tr.st)
    ELSE Result("Ok", goal_id,
                [tr.st EXCEPT !.goals[<<owner, goal_id>>] = Some(goal),
                              !.instance.GoalCounter = next_goal_id,
                              !.userCount[owner] = Some(user_count + 1)],
                << Xfer(owner, SELF, amount) >>, << >>, "none")

create_goal(st, t, auth, owner, amount, lock_duration, interest_rate) ==
    IF ~require_auth(auth) THEN Err(HostAuthError, st)
    ELSE IF amount <= 0 THEN Err("InvalidAmount", st)
    ELSE IF lock_duration < MIN_LOCK_DURATION \/ lock_duration > MAX_LOCK_DURATION
        THEN Err("InvalidDuration", st)
    ELSE IF interest_rate > MAX_INTEREST_RATE THEN Err("RateTooHigh", st)
    ELSE LET unlock_time == checked_add_u64(t, lock_duration) IN
    IF unlock_time = None THEN Err("Overflow", st)
    ELSE IF st.instance.Token = None THEN Err("NotInitialized", st)
    ELSE LET tr == token_transfer(st, owner, SELF, amount) IN
    IF ~tr.ok THEN Err(HostTransferError, st)
    ELSE LET goal_id == UnwrapOr(tr.st.instance.GoalCounter, 0)
             next_goal_id == checked_add_u64(goal_id, 1)
             goal == NewGoal(owner, amount, interest_rate, t, lock_duration,
                             Unwrap(unlock_time))
             user_count == UnwrapOr(tr.st.userCount[owner], 0)
    IN
    IF next_goal_id = None THEN Err("GoalOverflow", tr.st)
    ELSE Result("Ok", goal_id,
                [tr.st EXCEPT !.goals[<<owner, goal_id>>] = Some(goal),
                              !.instance.GoalCounter = next_goal_id,
                              !.userCount[owner] = Some(user_count + 1)],
                << Xfer(owner, SELF, amount) >>, << >>, "none")

-----------------------------------------------------------------------------
(* compound_interest *)

time_elapsed_since_start(current_time, goal) ==
    checked_sub_u64(current_time, goal.start_time)

time_elapsed(current_time, goal) ==
    checked_sub_u64(current_time, goal.last_compound_time)

(* total_balance * rate * elapsed / (SECONDS_PER_YEAR * BASIS_POINTS),      *)
(* every step checked: [err, val]                                          *)
interest_divide_first(total_balance, interest_rate, elapsed) ==
    LET d == checked_div(total_balance, SECONDS_PER_YEAR * BASIS_POINTS) IN
    IF d = None THEN [err |-> "DivisionError", val |-> 0]
    ELSE LET m1 == checked_mul(Unwrap(d), interest_rate) IN
    IF m1 = None THEN [err |-> "Overflow", val |-> 0]
    ELSE LET m2 == checked_mul(Unwrap(m1), elapsed) IN
    IF m2 = None THEN [err |-> "Overflow", val |-> 0]
    ELSE [err |-> "Ok", val |-> Unwrap(m2)]

interest(total_balance, interest_rate, elapsed) ==
    LET m1 == checked_mul(total_balance, interest_rate) IN
    IF m1 = None THEN [err |-> "Overflow", val |-> 0]
    ELSE LET m2 == checked_mul(Unwrap(m1), elapsed) IN
    IF m2 = None THEN [err |-> "Overflow", val |-> 0]
    ELSE LET d == checked_div(Unwrap(m2), SECONDS_PER_YEAR * BASIS_POINTS) IN
    IF d = None THEN [err |-> "DivisionError", val |-> 0]
    ELSE [err |-> "Ok", val |-> Unwrap(d)]

compound_interest_any_goal(st, t, owner, goal_id) ==
    IF st.goals[<<owner, goal_id>>] = None THEN Err("GoalNotFound", st)
    ELSE LET goal == Unwrap(st.goals[<<owner, goal_id>>])
             elapsed == time_elapsed(t, goal)
    IN
    IF elapsed = None THEN Err("TimeError", st)
    ELSE IF Unwrap(elapsed) = 0 THEN Ok(0, st)
    ELSE LET total_balance == checked_add(goal.principal, goal.accrued_interest) IN
    IF total_balance = None THEN Err("Overflow", st)
    ELSE LET i == interest(Unwrap(total_balance), goal.interest_rate, Unwrap(elapsed)) IN
    IF i.err # "Ok" THEN Err(i.err, st)
    ELSE LET accrued == checked_add(goal.accrued_interest, i.val) IN
    IF accrued = None THEN Err("Overflow", st)
    ELSE Ok(0, [st EXCEPT !.goals[<<owner, goal_id>>] =
                   Some([goal EXCEPT !.accrued_interest = Unwrap(accrued),
                                     !.last_compound_time = t])])

compound_interest(st, t, owner, goal_id) ==
    IF st.goals[<<owner, goal_id>>] = None THEN Err("GoalNotFound", st)
    ELSE LET goal == Unwrap(st.goals[<<owner, goal_id>>]) IN
    IF ~goal.is_active THEN Err("GoalInactive", st)
    ELSE LET elapsed == time_elapsed(t, goal) IN
    IF elapsed = None THEN Err("TimeError", st)
    ELSE IF Unwrap(elapsed) = 0 THEN Ok(0, st)
    ELSE LET total_balance == checked_add(goal.principal, goal.accrued_interest) IN
    IF total_balance = None THEN Err("Overflow", st)
    ELSE LET i == interest(Unwrap(total_balance), goal.interest_rate, Unwrap(elapsed)) IN
    IF i.err # "Ok" THEN Err(i.err, st)
    ELSE LET accrued == checked_add(goal.accrued_interest, i.val) IN
    IF accrued = None THEN Err("Overflow", st)
    ELSE Ok(0, [st EXCEPT !.goals[<<owner, goal_id>>] =
                   Some([goal EXCEPT !.accrued_interest = Unwrap(accrued),
                                     !.last_compound_time = t])])

-----------------------------------------------------------------------------
(* withdraw and emergency_withdraw.  Each is its checks and its record     *)
(* update (the goal is written inactive), then its token transfers.        *)
(* reenter names the call, if any, that the token contract makes back into *)
(* this contract on the same goal while the transfer to the owner is in    *)
(* progress; that call runs in a host frame of its own, and its failure is *)
(* not propagated.                                                         *)

(* outcome of the part before the transfers: [err, st, amount, penalty] *)
Checked(e, st, amount, penalty) ==
    [err |-> e, st |-> st, amount |-> amount, penalty |-> penalty]

Failed(e, st) == Checked(e, st, 0, 0)

NoCall(st) == Result("none", 0, st, << >>, << >>, "none")

is_locked_by_start(current_time, goal) == current_time < goal.start_time

is_locked(current_time, goal) == current_time < goal.unlock_time

mark_inactive(st, owner, goal_id, goal) ==
    [st EXCEPT !.goals[<<owner, goal_id>>] = Some([goal EXCEPT !.is_active = FALSE])]

(* withdraw up to the transfer; mark is FALSE only where the record update *)
(* is deferred until after the transfer                                    *)
withdraw_checks(st, t, auth, owner, goal_id, mark) ==
    LET Compounded(c) ==
    IF c.err # "Ok" THEN Failed(c.err, c.st)
    ELSE IF c.st.goals[<<owner, goal_id>>] = None THEN Failed("GoalNotFound", c.st)
    ELSE LET goal == Unwrap(c.st.goals[<<owner, goal_id>>]) IN
    IF ~goal.is_active THEN Failed("AlreadyWithdrawn", c.st)
    ELSE IF is_locked(t, goal) THEN Failed("StillLocked", c.st)
    ELSE LET total_amount == checked_add(goal.principal, goal.accrued_interest) IN
    IF total_amount = None THEN Failed("Overflow", c.st)
    ELSE LET marked == IF mark THEN mark_inactive(c.st, owner, goal_id, goal)
                       ELSE c.st
    IN
    IF marked.instance.Token = None THEN Failed("NotInitialized", marked)
    ELSE Checked("Ok", marked, Unwrap(total_amount), 0)
    IN
    IF ~require_auth(auth) THEN Failed(HostAuthError, st)
    ELSE Compounded(compound_interest(st, t, owner, goal_id))

(* the transfer of withdraw; n is the Result of the call nested in it *)
withdraw_transfer(n, owner, goal_id, total_amount) ==
    LET tr == token_transfer(n.st, SELF, owner, total_amount) IN
    IF ~tr.ok THEN Result(HostTransferError, 0, n.st, << >>, << >>, n.err)
    ELSE Result("Ok", total_amount, tr.st,
                n.xfers \o << Xfer(SELF, owner, total_amount) >>,
                n.payouts \o << <<owner, goal_id>> >>, n.err)

(* penalty = total_balance * penalty_rate / BASIS_POINTS, checked: [err, val] *)
penalty_divide_first(total_balance, penalty_rate) ==
    LET d == checked_div(total_balance, BASIS_POINTS) IN
    IF d = None THEN [err |-> "DivisionError", val |-> 0]
    ELSE LET m == checked_mul(Unwrap(d), penalty_rate) IN
    IF m = None THEN [err |-> "Overflow", val |-> 0]
    ELSE [err |-> "Ok", val |-> Unwrap(m)]

penalty_amount(total_balance, penalty_rate) ==
    LET m == checked_mul(total_balance, penalty_rate) IN
    IF m = None THEN [err |-> "Overflow", val |-> 0]
    ELSE LET d == checked_div(Unwrap(m), BASIS_POINTS) IN
    IF d = None THEN [err |-> "DivisionError", val |-> 0]
    ELSE [err |-> "Ok", val |-> Unwrap(d)]

(* emergency_withdraw up to the transfers *)
emergency_withdraw_checks(st, t, auth, owner, goal_id) ==
    LET Compounded(c) ==
    IF c.err # "Ok" THEN Failed(c.err, c.st)
    ELSE IF c.st.goals[<<owner, goal_id>>] = None THEN Failed("GoalNotFound", c.st)
    ELSE LET goal == Unwrap(c.st.goals[<<owner, goal_id>>]) IN
    IF ~goal.is_active THEN Failed("AlreadyWithdrawn", c.st)
    ELSE LET total_balance == checked_add(goal.principal, goal.accrued_interest) IN
    IF total_balance = None THEN Failed("Overflow", c.st)
    ELSE LET penalty_rate == UnwrapOr(c.st.instance.EmergencyPenalty, DEFAULT_PENALTY)
             penalty == penalty_amount(Unwrap(total_balance), penalty_rate)
    IN
    IF penalty.err # "Ok" THEN Failed(penalty.err, c.st)
    ELSE LET withdrawal_amount == checked_sub(Unwrap(total_balance), penalty.val) IN
    IF withdrawal_amount = None THEN Failed("Underflow", c.st)
    ELSE LET marked == mark_inactive(c.st, owner, goal_id, goal) IN
    IF marked.instance.Token = None THEN Failed("NotInitialized", marked)
    ELSE Checked("Ok", marked, Unwrap(withdrawal_amount), penalty.val)
    IN
    IF ~require_auth(auth) THEN Failed(HostAuthError, st)
    ELSE Compounded(compound_interest(st, t, owner, goal_id))

(* the transfers of emergency_withdraw; n is the Result of the call nested *)
(* in the transfer to the owner                                            *)
emergency_withdraw_transfers(n, owner, goal_id, withdrawal_amount, penalty) ==
    LET tr1 == token_transfer(n.st, SELF, owner, withdrawal_amount) IN
    IF ~tr1.ok THEN Result(HostTransferError, 0, n.st, << >>, << >>, n.err)
    ELSE IF tr1.st.instance.Admin = None
        THEN Result("NotInitialized", 0, tr1.st, << >>, << >>, n.err)
    ELSE LET admin == Unwrap(tr1.st.instance.Admin)
             tr2 == token_transfer(tr1.st, SELF, admin, penalty)
    IN
    IF ~tr2.ok THEN Result(HostTransferError, 0, tr1.st, << >>, << >>, n.err)
    ELSE Result("Ok", withdrawal_amount, tr2.st,
                n.xfers \o << Xfer(SELF, owner, withdrawal_amount),
                              Xfer(SELF, admin, penalty) >>,
                n.payouts \o << <<owner, goal_id>> >>, n.err)

(* withdraw and emergency_withdraw from their checks b on: n is the call   *)
(* nested in the transfer to the owner                                     *)
withdraw_checked(b, n, owner, goal_id) ==
    IF b.err # "Ok" THEN Err(b.err, b.st)
    ELSE withdraw_transfer(n, owner, goal_id, b.amount)

emergency_withdraw_checked(b, n, owner, goal_id) ==
    IF b.err # "Ok" THEN Err(b.err, b.st)
    ELSE emergency_withdraw_transfers(n, owner, goal_id, b.amount, b.penalty)

(* the call the token contract makes back into this contract: the owner's  *)
(* own withdraw or emergency_withdraw of the same goal, with no further    *)
(* call nested in its transfer                                             *)
Nested(st, b) == IF b.err # "Ok" THEN NoCall(st) ELSE NoCall(b.st)

Reentered(st, b, owner, goal_id) ==
    HostFrame(st, withdraw_checked(b, Nested(st, b), owner, goal_id))

ReenteredEmergency(st, b, owner, goal_id) ==
    HostFrame(st, emergency_withdraw_checked(b, Nested(st, b), owner, goal_id))

Callback(st, t, owner, goal_id, reenter) ==
    IF reenter = "withdraw"
        THEN Reentered(st, withdraw_checks(st, t, TRUE, owner, goal_id, TRUE),
                       owner, goal_id)
    ELSE IF reenter = "emergency_withdraw"
        THEN ReenteredEmergency(
                 st, emergency_withdraw_checks(st, t, TRUE, owner, goal_id),
                 owner, goal_id)
    ELSE NoCall(st)

(* the call nested in the transfer that follows the checks b *)
CallbackAfter(b, t, owner, goal_id, reenter) ==
    IF b.err # "Ok" THEN NoCall(b.st)
    ELSE Callback(b.st, t, owner, goal_id, reenter)

MarkedAfter(r, owner, goal_id) ==
    IF r.err # "Ok" THEN r
    ELSE [r EXCEPT !.st = mark_inactive(r.st, owner, goal_id,
                                        Unwrap(r.st.goals[<<owner, goal_id>>]))]

WithChecks(b, t, owner, goal_id, reenter) ==
    withdraw_checked(b, CallbackAfter(b, t, owner, goal_id, reenter), owner, goal_id)

EmergencyWithChecks(b, t, owner, goal_id, reenter) ==
    emergency_withdraw_checked(b, CallbackAfter(b, t, owner, goal_id, reenter),
                               owner, goal_id)

withdraw_transfer_first(st, t, auth, owner, goal_id, reenter) ==
    MarkedAfter(WithChecks(withdraw_checks(st, t, auth, owner, goal_id, FALSE),
                           t, owner, goal_id, reenter),
                owner, goal_id)

withdraw(st, t, auth, owner, goal_id, reenter) ==
    WithChecks(withdraw_checks(st, t, auth, owner, goal_id, TRUE),
               t, owner, goal_id, reenter)

emergency_withdraw(st, t, auth, owner, goal_id, reenter) ==
    EmergencyWithChecks(emergency_withdraw_checks(st, t, auth, owner, goal_id),
                        t, owner, goal_id, reenter)

-----------------------------------------------------------------------------
(* Reads *)

get_goal(st, owner, goal_id) ==
    IF st.goals[<<owner, goal_id>>] = None THEN Err("GoalNotFound", st) ELSE Ok(0, st)

get_user_goal_count(st, owner) == Ok(UnwrapOr(st.userCount[owner], 0), st)

pending_interest_divide_first(goal, total_balance, elapsed) ==
    LET d == checked_div(total_balance, SECONDS_PER_YEAR * BASIS_POINTS) IN
    IF d = None THEN [err |-> "DivisionError", val |-> 0]
    ELSE LET m1 == checked_mul(Unwrap(d), goal.interest_rate) IN
    IF m1 = None THEN [err |-> "Overflow", val |-> 0]
    ELSE LET m2 == checked_mul(Unwrap(m1), elapsed) IN
    IF m2 = None THEN [err |-> "Overflow", val |-> 0]
    ELSE [err |-> "Ok", val |-> Unwrap(m2)]

pending_interest(goal, total_balance, elapsed) ==
    LET m1 == checked_mul(total_balance, goal.interest_rate) IN
    IF m1 = None THEN [err |-> "Overflow", val |-> 0]
    ELSE LET m2 == checked_mul(Unwrap(m1), elapsed) IN
    IF m2 = None THEN [err |-> "Overflow", val |-> 0]
    ELSE LET d == checked_div(Unwrap(m2), SECONDS_PER_YEAR * BASIS_POINTS) IN
    IF d = None THEN [err |-> "DivisionError", val |-> 0]
    ELSE [err |-> "Ok", val |-> Unwrap(d)]

get_current_balance(st, t, owner, goal_id) ==
    IF st.goals[<<owner, goal_id>>] = None THEN Err("GoalNotFound", st)
    ELSE LET goal == Unwrap(st.goals[<<owner, goal_id>>]) IN
    IF ~goal.is_active THEN Ok(0, st)
    ELSE LET elapsed == checked_sub_u64(t, goal.last_compound_time) IN
    IF elapsed = None THEN Err("TimeError", st)
    ELSE LET total_balance == checked_add(goal.principal, goal.accrued_interest) IN
    IF total_balance = None THEN Err("Overflow", st)
    ELSE LET p == pending_interest(goal, Unwrap(total_balance), Unwrap(elapsed)) IN
    IF p.err # "Ok" THEN Err(p.err, st)
    ELSE LET total == checked_add(Unwrap(total_balance), p.val) IN
    IF total = None THEN Err("Overflow", st)
    ELSE Ok(Unwrap(total), st)

(* set_emergency_penalty *)

set_emergency_penalty_any_caller(st, auth, admin, new_penalty) ==
    IF ~require_auth(auth) THEN Err(HostAuthError, st)
    ELSE IF st.instance.Admin = None THEN Err("NotInitialized", st)
    ELSE IF new_penalty > MAX_PENALTY THEN Err("PenaltyTooHigh", st)
    ELSE Ok(0, [st EXCEPT !.instance.EmergencyPenalty = Some(new_penalty)])

set_emergency_penalty(st, auth, admin, new_penalty) ==
    IF ~require_auth(auth) THEN Err(HostAuthError, st)
    ELSE IF st.instance.Admin = None THEN Err("NotInitialized", st)
    ELSE IF admin # Unwrap(st.instance.Admin) THEN Err("Unauthorized", st)
    ELSE IF new_penalty > MAX_PENALTY THEN Err("PenaltyTooHigh", st)
    ELSE Ok(0, [st EXCEPT !.instance.EmergencyPenalty = Some(new_penalty)])

-----------------------------------------------------------------------------
(* The state machine: one action per exported contract function, each run  *)
(* in a host frame at the current ledger time, and the ledger clock.       *)

NoCalc == [balance |-> 0, rate |-> 0, elapsed |-> 0,
           accrued |-> [err |-> "Ok", val |-> 0],
           pending |-> [err |-> "Ok", val |-> 0]]

Init ==
    /\ now = 0
    /\ instance = [Token |-> None, Admin |-> None, EmergencyPenalty |-> None,
                   GoalCounter |-> None]
    /\ goals = [k \in Keys |-> None]
    /\ userCount = [u \in Users |-> None]
    /\ bal \in InitialBalances
    /\ paid = [k \in Keys |-> 0]
    /\ last = [op |-> "deploy", err |-> "Ok", nested |-> "none"]
    /\ calc = NoCalc

CountOf(seq, k) == Cardinality({i \in 1 .. Len(seq) : seq[i] = k})

Invoke(op, r) ==
    LET f == HostFrame(Store, r) IN
    /\ instance' = f.st.instance
    /\ goals' = f.st.goals
    /\ userCount' = f.st.userCount
    /\ bal' = f.st.bal
    /\ paid' = [k \in Keys |-> paid[k] + CountOf(f.payouts, k)]
    /\ last' = [op |-> op, err |-> f.err, nested |-> f.nested]
    /\ UNCHANGED << now, calc >>

Initialize ==
    \E a \in InitArgs :
        Invoke("initialize", initialize(Store, a[1], a[2], a[3]))

CreateGoal ==
    /\ UnwrapOr(instance.GoalCounter, 0) < MaxGoals
    /\ \E a \in CreateArgs :
        Invoke("create_goal",
               create_goal(Store, now, a[1], a[2][1], a[2][2], a[2][3], a[2][4]))

CompoundInterest ==
    \E k \in Keys :
        Invoke("compound_interest", compound_interest(Store, now, k[1], k[2]))

Withdraw ==
    \E a \in WithdrawArgs, k \in Keys :
        Invoke("withdraw", withdraw(Store, now, a[1], k[1], k[2], a[2]))

EmergencyWithdraw ==
    \E a \in WithdrawArgs, k \in Keys :
        Invoke("emergency_withdraw",
               emergency_withdraw(Store, now, a[1], k[1], k[2], a[2]))

GetGoal ==
    \E k \in Keys : Invoke("get_goal", get_goal(Store, k[1], k[2]))

GetUserGoalCount ==
    \E u \in Users : Invoke("get_user_goal_count", get_user_goal_count(Store, u))

GetCurrentBalance ==
    \E k \in Keys :
        Invoke("get_current_balance", get_current_balance(Store, now, k[1], k[2]))

SetEmergencyPenalty ==
    \E a \in PenaltyArgs :
        Invoke("set_emergency_penalty", set_emergency_penalty(Store, a[1], a[2], a[3]))

(* The ledger clock: it advances, and a misbehaving time source steps back *)
ClockAdvance ==
    /\ now < MaxTime
    /\ now' = now + 1
    /\ UNCHANGED << instance, goals, userCount, bal, paid, last, calc >>

ClockRegress ==
    /\ now > 0
    /\ now' = now - 1
    /\ UNCHANGED << instance, goals, userCount, bal, paid, last, calc >>

Next ==
    \/ Initialize
    \/ CreateGoal
    \/ CompoundInterest
    \/ Withdraw
    \/ EmergencyWithdraw
    \/ GetGoal
    \/ GetUserGoalCount
    \/ GetCurrentBalance
    \/ SetEmergencyPenalty
    \/ ClockAdvance
    \/ ClockRegress

Spec == Init /\ [][Next]_vars

(* The interest formula on its own: a balance and a rate are drawn, and    *)
(* each step evaluates compound_interest's and get_current_balance's       *)
(* formula for a longer elapsed time.                                      *)
Calc(balance, rate, elapsed) ==
    [balance |-> balance, rate |-> rate, elapsed |-> elapsed,
     accrued |-> interest(balance, rate, elapsed),
     pending |-> pending_interest([interest_rate |-> rate], balance, elapsed)]

InitInterest ==
    /\ now = 0
    /\ instance = [Token |-> None, Admin |-> None, EmergencyPenalty |-> None,
                   GoalCounter |-> None]
    /\ goals = [k \in Keys |-> None]
    /\ userCount = [u \in Users |-> None]
    /\ bal \in InitialBalances
    /\ paid = [k \in Keys |-> 0]
    /\ last = [op |-> "deploy", err |-> "Ok", nested |-> "none"]
    /\ \E b \in Balances, r \in InterestRates : calc = Calc(b, r, 0)

Accrue ==
    /\ \E e \in Elapsed :
        /\ e > calc.elapsed
        /\ calc' = Calc(calc.balance, calc.rate, e)
    /\ UNCHANGED << now, instance, goals, userCount, bal, paid, last >>

NextInterest == Accrue

SpecInterest == InitInterest /\ [][NextInterest]_vars

-----------------------------------------------------------------------------
(* Properties.  An invocation at the current state is the contract         *)
(* function applied to Store at the ledger time now, inside its host frame. *)

Exists(k) == goals[k] # None
GoalOf(k) == goals[k][1]
IsActive(k) == Exists(k) /\ GoalOf(k).is_active
Terminated(k) == Exists(k) /\ ~GoalOf(k).is_active

WithdrawAt(auth, k, reenter) ==
    HostFrame(Store, withdraw(Store, now, auth, k[1], k[2], reenter))
EmergencyAt(auth, k, reenter) ==
    HostFrame(Store, emergency_withdraw(Store, now, auth, k[1], k[2], reenter))
CompoundAt(k) == HostFrame(Store, compound_interest(Store, now, k[1], k[2]))
BalanceAt(k) == HostFrame(Store, get_current_balance(Store, now, k[1], k[2]))

(* C1: once a goal has been paid out by withdraw or emergency_withdraw,    *)
(* every later authorized withdraw or emergency_withdraw on it, at any     *)
(* clock value, fails with AlreadyWithdrawn and transfers nothing.         *)
C1_AlreadyWithdrawn ==
    \A k \in Keys :
        (Terminated(k) /\ paid[k] >= 1) =>
            /\ WithdrawAt(TRUE, k, "none").err = "AlreadyWithdrawn"
            /\ WithdrawAt(TRUE, k, "none").xfers = << >>
            /\ EmergencyAt(TRUE, k, "none").err = "AlreadyWithdrawn"
            /\ EmergencyAt(TRUE, k, "none").xfers = << >>

(* C2: a withdraw or emergency_withdraw that the token contract issues on  *)
(* the same goal while the transfer to the owner is in progress finds the  *)
(* goal terminated and fails, the outer call pays at most once, and no     *)
(* goal is ever paid out more than once.                                   *)
C2_SinglePayout ==
    /\ \A k \in Keys : paid[k] <= 1
    /\ \A k \in Keys : \A reenter \in Reentries \ {"none"} :
        LET w == withdraw(Store, now, TRUE, k[1], k[2], reenter)
            e == emergency_withdraw(Store, now, TRUE, k[1], k[2], reenter)
        IN
        /\ w.nested \in {"none", "GoalInactive"}
        /\ e.nested \in {"none", "GoalInactive"}
        /\ Len(w.payouts) <= 1
        /\ Len(e.payouts) <= 1

C2_Witness ==
    /\ last.op \in {"withdraw", "emergency_withdraw"}
    /\ last.err = "Ok"
    /\ last.nested = "GoalInactive"
    /\ \E k \in Keys : Terminated(k) /\ paid[k] = 1

(* C3: a goal record is created active, is never deleted, and once it is   *)
(* inactive no step changes any field of it.                               *)
C3_TerminalStep ==
    \A k \in Keys :
        /\ (~Exists(k) /\ goals'[k] # None) => goals'[k][1].is_active
        /\ Exists(k) => goals'[k] # None
        /\ Terminated(k) => goals'[k] = goals[k]

C3_TerminalOnce == [][C3_TerminalStep]_vars

C3_Witness ==
    /\ \E k \in Keys : Terminated(k) /\ GoalOf(k).last_compound_time < now
    /\ last.op = "compound_interest"
    /\ last.err = "GoalInactive"

C5_MatureWithdrawPays ==
    \A k \in Keys :
        ( /\ IsActive(k)
          /\ GoalOf(k).interest_rate > 0
          /\ now >= GoalOf(k).unlock_time
          /\ bal[SELF] = GoalOf(k).principal
          /\ CompoundAt(k).err = "Ok"
          /\ CompoundAt(k).st.goals[k][1].accrued_interest > 0 ) =>
            LET w == WithdrawAt(TRUE, k, "none") IN
            /\ w.err = "Ok"
            /\ w.ret > GoalOf(k).principal
            /\ ~w.st.goals[k][1].is_active

(* C6 as stated: an authorized withdraw on an active goal succeeds only at *)
(* or after unlock_time, before unlock_time it fails with StillLocked and  *)
(* pays nothing, and StillLocked is never returned for an inactive goal.   *)
C6_LockedFailsStillLocked ==
    \A k \in Keys :
        LET w == WithdrawAt(TRUE, k, "none") IN
        /\ (IsActive(k) /\ w.err = "Ok") => now >= GoalOf(k).unlock_time
        /\ (IsActive(k) /\ now < GoalOf(k).unlock_time) =>
              (w.err = "StillLocked" /\ w.xfers = << >>)
        /\ Terminated(k) => w.err # "StillLocked"

(* C6 amended: before unlock_time an authorized withdraw on an active goal *)
(* pays nothing and fails, with StillLocked when its compound_interest     *)
(* step succeeds and with that step's error (TimeError, Overflow)          *)
(* otherwise; it succeeds only at or after unlock_time; StillLocked is     *)
(* never returned for an inactive goal.                                    *)
C6_LockedFails ==
    \A k \in Keys :
        LET w == WithdrawAt(TRUE, k, "none")
            c == CompoundAt(k)
        IN
        /\ (IsActive(k) /\ w.err = "Ok") => now >= GoalOf(k).unlock_time
        /\ (IsActive(k) /\ now < GoalOf(k).unlock_time) =>
              /\ w.xfers = << >>
              /\ w.st = Store
              /\ c.err = "Ok" => w.err = "StillLocked"
              /\ c.err # "Ok" => (w.err = c.err /\ c.err \in {"TimeError", "Overflow"})
        /\ Terminated(k) => w.err # "StillLocked"

C6_Witness ==
    /\ last.op = "withdraw"
    /\ last.err = "StillLocked"
    /\ \E k \in Keys : IsActive(k) /\ now < GoalOf(k).unlock_time
    /\ \A k \in Keys : Exists(k) => (IsActive(k) /\ now < GoalOf(k).unlock_time)

(* C7: withdraw and emergency_withdraw without the owner's authorization   *)
(* fail and change nothing; a successful withdraw pays the goal's owner    *)
(* only, a successful emergency_withdraw the owner and the stored admin    *)
(* only; compound_interest makes no transfer and changes no balance, no    *)
(* counter, no configuration, and no goal's is_active or principal.        *)
SameTerminalFields(before, after) ==
    \A k \in Keys :
        IF before[k] = None THEN after[k] = None
        ELSE /\ after[k] # None
             /\ after[k][1].is_active = before[k][1].is_active
             /\ after[k][1].principal = before[k][1].principal
             /\ after[k][1].owner = before[k][1].owner

C7_OwnerOnly ==
    \A k \in Keys :
        /\ Exists(k) => GoalOf(k).owner = k[1]
        /\ LET w == WithdrawAt(FALSE, k, "none")
               e == EmergencyAt(FALSE, k, "none")
           IN
           /\ w.err # "Ok" /\ w.st = Store /\ w.xfers = << >>
           /\ e.err # "Ok" /\ e.st = Store /\ e.xfers = << >>
        /\ \A reenter \in Reentries :
           LET w == WithdrawAt(TRUE, k, reenter)
               e == EmergencyAt(TRUE, k, reenter)
           IN
           /\ w.err = "Ok" =>
                 \A i \in 1 .. Len(w.xfers) :
                     w.xfers[i].from = SELF /\ w.xfers[i].to = GoalOf(k).owner
           /\ e.err = "Ok" =>
                 \A i \in 1 .. Len(e.xfers) :
                     /\ e.xfers[i].from = SELF
                     /\ e.xfers[i].to \in {GoalOf(k).owner, Unwrap(instance.Admin)}
        /\ LET c == compound_interest(Store, now, k[1], k[2]) IN
           /\ c.xfers = << >>
           /\ c.st.bal = bal
           /\ c.st.instance = instance
           /\ c.st.userCount = userCount
           /\ SameTerminalFields(goals, c.st.goals)

C7_Witness ==
    /\ last.op = "emergency_withdraw"
    /\ last.err = "Ok"
    /\ bal["adm"] > 0
    /\ \E k \in Keys : IsActive(k) /\ WithdrawAt(FALSE, k, "none").err = HostAuthError

(* C8 as stated: on an active goal, at a clock value not before            *)
(* last_compound_time, get_current_balance returns principal +             *)
(* accrued_interest of the record an immediate compound_interest would     *)
(* leave, fails with compound_interest's error when that fails, and        *)
(* changes nothing.                                                        *)
C8_BalanceEqualsCompound ==
    \A k \in Keys :
        (IsActive(k) /\ now >= GoalOf(k).last_compound_time) =>
            LET c == compound_interest(Store, now, k[1], k[2])
                b == get_current_balance(Store, now, k[1], k[2])
            IN
            /\ b.st = Store
            /\ c.err # "Ok" => b.err = c.err
            /\ c.err = "Ok" =>
                  /\ b.err = "Ok"
                  /\ b.ret = c.st.goals[k][1].principal
                                 + c.st.goals[k][1].accrued_interest

(* C8 amended: the same, except where get_current_balance's own checked   *)
(* arithmetic leaves the i128 range although compound_interest succeeds:   *)
(* when the compounded principal + accrued_interest exceeds the range, or  *)
(* when now = last_compound_time (compound_interest returns before any     *)
(* arithmetic) and (principal + accrued_interest) * interest_rate exceeds  *)
(* it.  There get_current_balance fails with Overflow.                     *)
C8_OutOfRange(k, total) ==
    \/ total > I128_MAX
    \/ /\ now = GoalOf(k).last_compound_time
       /\ GoalOf(k).interest_rate > 0
       /\ total > I128_MAX \div GoalOf(k).interest_rate

C8_BalanceEqualsCompoundInRange ==
    \A k \in Keys :
        (IsActive(k) /\ now >= GoalOf(k).last_compound_time) =>
            LET c == compound_interest(Store, now, k[1], k[2])
                b == get_current_balance(Store, now, k[1], k[2])
                total == c.st.goals[k][1].principal + c.st.goals[k][1].accrued_interest
            IN
            /\ b.st = Store
            /\ c.err # "Ok" => b.err = c.err
            /\ (c.err = "Ok" /\ ~C8_OutOfRange(k, total)) =>
                  (b.err = "Ok" /\ b.ret = total)
            /\ (c.err = "Ok" /\ C8_OutOfRange(k, total)) => b.err = "Overflow"

C8_Witness ==
    /\ last.op = "get_current_balance"
    /\ last.err = "Ok"
    /\ \E k \in Keys : Exists(k)
    /\ \A k \in Keys : Exists(k) =>
        /\ IsActive(k)
        /\ GoalOf(k).last_compound_time < now
        /\ GoalOf(k).accrued_interest > 0
        /\ BalanceAt(k).ret > GoalOf(k).principal + GoalOf(k).accrued_interest

(* C9: a successful emergency_withdraw, before or after unlock_time, pays  *)
(* total - penalty to the owner and penalty to the admin, where total is   *)
(* principal + accrued_interest compounded to now and penalty is           *)
(* floor(total * stored penalty rate / 10000); it returns total - penalty, *)
(* the two payments add up to total, and it never fails with Underflow.    *)
C9_PenaltySplit ==
    \A k \in Keys : \A reenter \in Reentries :
        LET e == emergency_withdraw(Store, now, TRUE, k[1], k[2], reenter) IN
        /\ e.err # "Underflow"
        /\ e.err = "Ok" =>
              LET c == compound_interest(Store, now, k[1], k[2])
                  total == c.st.goals[k][1].principal + c.st.goals[k][1].accrued_interest
                  rate == Unwrap(instance.EmergencyPenalty)
                  penalty == (total * rate) \div 10000
              IN
              /\ c.err = "Ok"
              /\ rate <= 5000
              /\ e.ret = total - penalty
              /\ e.xfers = << Xfer(SELF, k[1], total - penalty),
                              Xfer(SELF, Unwrap(instance.Admin), penalty) >>
              /\ e.xfers[1].amount + e.xfers[2].amount = total
              /\ e.st.bal[SELF] = bal[SELF] - total

C9_Witness ==
    /\ last.op = "emergency_withdraw"
    /\ last.err = "Ok"
    /\ \E k \in Keys :
        /\ Terminated(k)
        /\ GoalOf(k).accrued_interest > 0
        /\ now < GoalOf(k).unlock_time
        /\ GoalOf(k).last_compound_time = now
        /\ paid[k] = 1
    /\ bal["adm"] = ((Deposit + 1) * DEFAULT_PENALTY) \div BASIS_POINTS

(* C10: compound_interest on an active goal whose last_compound_time is    *)
(* the current clock value returns Ok and writes nothing; a second         *)
(* compound_interest at the same clock value after a successful one        *)
(* returns Ok and leaves the record as the first left it.                  *)
C10_CompoundIdempotent ==
    \A k \in Keys :
        LET c1 == compound_interest(Store, now, k[1], k[2])
            c2 == compound_interest(c1.st, now, k[1], k[2])
        IN
        /\ (IsActive(k) /\ now = GoalOf(k).last_compound_time) =>
              (c1.err = "Ok" /\ c1.st = Store)
        /\ c1.err = "Ok" => (c2.err = "Ok" /\ c2.st = c1.st)

C10_Witness ==
    /\ last.op = "compound_interest"
    /\ last.err = "Ok"
    /\ \E k \in Keys : Exists(k)
    /\ \A k \in Keys : Exists(k) =>
        /\ IsActive(k)
        /\ GoalOf(k).start_time < now
        /\ GoalOf(k).last_compound_time = now
        /\ GoalOf(k).accrued_interest > 0

(* C11: a successful create_goal returns the global goal counter as it was *)
(* before the call, adds exactly 1 to it and to the owner's count, and     *)
(* writes a record only under a key that held none; a failed create_goal   *)
(* changes neither counter.  The ids in use are 0, 1, 2, ... below the     *)
(* counter, each given to exactly one owner.                               *)
GoalCounterValue == UnwrapOr(instance.GoalCounter, 0)

C11_GoalIds ==
    /\ \A k \in Keys : Exists(k) => k[2] < GoalCounterValue
    /\ \A id \in GoalIds :
        id < GoalCounterValue =>
            Cardinality({u \in Users : Exists(<<u, id>>)}) = 1
    /\ \A u \in Users :
        UnwrapOr(userCount[u], 0) = Cardinality({id \in GoalIds : Exists(<<u, id>>)})
    /\ GoalCounterValue < MaxGoals =>
        \A a \in CreateArgs :
            LET owner == a[2][1]
                r == create_goal(Store, now, a[1], owner, a[2][2], a[2][3], a[2][4])
            IN
            IF r.err = "Ok"
            THEN /\ r.ret = GoalCounterValue
                 /\ r.st.instance.GoalCounter = Some(GoalCounterValue + 1)
                 /\ r.st.userCount =
                        [userCount EXCEPT ![owner] = Some(UnwrapOr(@, 0) + 1)]
                 /\ goals[<<owner, r.ret>>] = None
                 /\ r.st.goals[<<owner, r.ret>>] # None
                 /\ \A k \in Keys \ {<<owner, r.ret>>} : r.st.goals[k] = goals[k]
            ELSE /\ r.st.instance.GoalCounter = instance.GoalCounter
                 /\ r.st.userCount = userCount
                 /\ r.st.goals = goals

C11_Witness ==
    /\ last.op = "create_goal"
    /\ last.err = "Ok"
    /\ GoalCounterValue = 2
    /\ Exists(<<"u1", 0>>)
    /\ Exists(<<"u2", 1>>)
    /\ userCount["u1"] = Some(1)
    /\ userCount["u2"] = Some(1)

(* C12: once the contract is initialized, initialize with any arguments    *)
(* fails with AlreadyInitialized and writes nothing, and no step changes   *)
(* the token or the admin; on an uninitialized contract a penalty above    *)
(* 5000 fails with PenaltyTooHigh and writes nothing; initialize succeeds  *)
(* only on an uninitialized contract.                                      *)
AnyInitArgs ==
    {"tokA", "tokB"} \X Addr \X {0, DEFAULT_PENALTY, MAX_PENALTY, MAX_PENALTY + 1}

C12_InitializeChecks ==
    \A a \in AnyInitArgs :
        LET r == initialize(Store, a[1], a[2], a[3]) IN
        IF IsSome(instance.Token)
            THEN r.err = "AlreadyInitialized" /\ r.st = Store
        ELSE IF a[3] > MAX_PENALTY
            THEN r.err = "PenaltyTooHigh" /\ r.st = Store
        ELSE r.err = "Ok"

C12_InitializeStep ==
    /\ IsSome(instance.Token) =>
          /\ instance'.Token = instance.Token
          /\ instance'.Admin = instance.Admin
    /\ (now' = now /\ last'.op = "initialize" /\ last'.err = "Ok") =>
          instance.Token = None
    /\ (now' = now /\ last'.op = "initialize" /\ last'.err # "Ok") =>
          instance' = instance

C12_InitializeOnce == [](C12_InitializeChecks) /\ [][C12_InitializeStep]_vars

C12_Witness ==
    /\ last.op = "initialize"
    /\ last.err = "AlreadyInitialized"
    /\ instance.Token = Some("tokA")
    /\ instance.Admin = Some("adm")
    /\ instance.GoalCounter = Some(1)

(* C13: the stored penalty rate, when set, is within 0..5000; on an        *)
(* initialized contract set_emergency_penalty authorized by its caller     *)
(* fails with Unauthorized for every caller other than the stored admin,   *)
(* fails with PenaltyTooHigh for the admin with a rate above 5000, writing *)
(* nothing in both cases, and otherwise stores the new rate and nothing    *)
(* else; a call its caller did not authorize writes nothing; and the rate  *)
(* changes only in a successful initialize or set_emergency_penalty.       *)
AnyPenalties == {0, DEFAULT_PENALTY, MAX_PENALTY, MAX_PENALTY + 1}

C13_PenaltyChecks ==
    /\ IsSome(instance.EmergencyPenalty) =>
          Unwrap(instance.EmergencyPenalty) \in 0 .. MAX_PENALTY
    /\ \A c \in Addr, p \in AnyPenalties :
        LET r == set_emergency_penalty(Store, TRUE, c, p)
            u == set_emergency_penalty(Store, FALSE, c, p)
        IN
        /\ u.err = HostAuthError /\ u.st = Store
        /\ IsSome(instance.Admin) =>
            IF c # Unwrap(instance.Admin)
                THEN r.err = "Unauthorized" /\ r.st = Store
            ELSE IF p > MAX_PENALTY
                THEN r.err = "PenaltyTooHigh" /\ r.st = Store
            ELSE /\ r.err = "Ok"
                 /\ r.st = [Store EXCEPT !.instance.EmergencyPenalty = Some(p)]

C13_PenaltyStep ==
    instance'.EmergencyPenalty # instance.EmergencyPenalty =>
        /\ now' = now
        /\ last'.op \in {"initialize", "set_emergency_penalty"}
        /\ last'.err = "Ok"

C13_PenaltyBounded == [](C13_PenaltyChecks) /\ [][C13_PenaltyStep]_vars

C13_Witness ==
    /\ last.op = "set_emergency_penalty"
    /\ last.err = "Ok"
    /\ instance.Admin = Some("adm")
    /\ instance.EmergencyPenalty = Some(MAX_PENALTY)

(* C14: an authorized create_goal with amount <= 0 fails with              *)
(* InvalidAmount for every lock_duration and interest_rate, on an          *)
(* initialized and on an uninitialized contract, and writes no record,     *)
(* changes no counter and makes no transfer.                               *)
C14_InvalidAmount ==
    \A owner \in Users, amount \in {I128_MIN, 0 - 1, 0},
       d \in Durations, rate \in Rates :
        LET r == create_goal(Store, now, TRUE, owner, amount, d, rate) IN
        /\ r.err = "InvalidAmount"
        /\ r.st = Store
        /\ r.xfers = << >>

C14_Witness ==
    /\ last.op = "create_goal"
    /\ last.err = "InvalidAmount"
    /\ instance.Token = None
    /\ instance.GoalCounter = None
    /\ \A k \in Keys : ~Exists(k)

(* C15: on an active goal whose last_compound_time is later than the clock *)
(* value, compound_interest, an authorized withdraw or emergency_withdraw  *)
(* (with or without a call nested in the transfer) and get_current_balance *)
(* fail with TimeError and leave the storage as it was; and no step leaves *)
(* a record it wrote with a last_compound_time later than the clock value  *)
(* of that step.                                                           *)
C15_ClockBehind ==
    \A k \in Keys :
        (IsActive(k) /\ now < GoalOf(k).last_compound_time) =>
            /\ compound_interest(Store, now, k[1], k[2]).err = "TimeError"
            /\ compound_interest(Store, now, k[1], k[2]).st = Store
            /\ get_current_balance(Store, now, k[1], k[2]).err = "TimeError"
            /\ get_current_balance(Store, now, k[1], k[2]).st = Store
            /\ \A reenter \in Reentries :
                LET w == withdraw(Store, now, TRUE, k[1], k[2], reenter)
                    e == emergency_withdraw(Store, now, TRUE, k[1], k[2], reenter)
                IN
                /\ w.err = "TimeError" /\ w.st = Store /\ w.xfers = << >>
                /\ e.err = "TimeError" /\ e.st = Store /\ e.xfers = << >>

C15_WriteStep ==
    \A k \in Keys :
        (goals'[k] # goals[k]) =>
            /\ now' = now
            /\ goals'[k] # None
            /\ goals'[k][1].last_compound_time <= now

C15_TimeError == [](C15_ClockBehind) /\ [][C15_WriteStep]_vars

C15_Witness ==
    /\ last.op = "withdraw"
    /\ last.err = "TimeError"
    /\ \E k \in Keys : IsActive(k) /\ now < GoalOf(k).last_compound_time

(* C16: every goal record has start_time <= last_compound_time and         *)
(* unlock_time = start_time + lock_duration; a record is created with      *)
(* start_time and last_compound_time equal to the clock value, a step that *)
(* writes a record leaves its last_compound_time no later than the clock   *)
(* value of the step, and no step removes a record, lowers its             *)
(* last_compound_time, or changes its start_time, lock_duration,           *)
(* unlock_time, owner or interest_rate.                                    *)
C16_Times ==
    \A k \in Keys :
        Exists(k) =>
            /\ GoalOf(k).start_time <= GoalOf(k).last_compound_time
            /\ GoalOf(k).unlock_time = GoalOf(k).start_time + GoalOf(k).lock_duration
            /\ GoalOf(k).owner = k[1]

C16_TimesStep ==
    \A k \in Keys :
        /\ (goals'[k] # goals[k]) =>
            /\ now' = now
            /\ goals'[k] # None
            /\ goals'[k][1].last_compound_time <= now
        /\ (~Exists(k) /\ goals'[k] # None) =>
            /\ goals'[k][1].start_time = now
            /\ goals'[k][1].last_compound_time = now
        /\ Exists(k) =>
            /\ goals'[k] # None
            /\ goals'[k][1].last_compound_time >= GoalOf(k).last_compound_time
            /\ goals'[k][1].start_time = GoalOf(k).start_time
            /\ goals'[k][1].lock_duration = GoalOf(k).lock_duration
            /\ goals'[k][1].unlock_time = GoalOf(k).unlock_time
            /\ goals'[k][1].owner = GoalOf(k).owner
            /\ goals'[k][1].interest_rate = GoalOf(k).interest_rate

C16_TimeFields == [](C16_Times) /\ [][C16_TimesStep]_vars

C16_Witness ==
    /\ last.op = "compound_interest"
    /\ last.err = "Ok"
    /\ \E k \in Keys :
        /\ IsActive(k)
        /\ GoalOf(k).start_time = 1
        /\ GoalOf(k).last_compound_time = 2
        /\ GoalOf(k).unlock_time = 3
        /\ now = 2

(* C17: every goal record has principal > 0 and accrued_interest >= 0, and *)
(* no step changes a record's principal or lowers its accrued_interest.    *)
C17_Amounts ==
    \A k \in Keys :
        Exists(k) => GoalOf(k).principal > 0 /\ GoalOf(k).accrued_interest >= 0

C17_AmountsStep ==
    \A k \in Keys :
        Exists(k) =>
            /\ goals'[k] # None
            /\ goals'[k][1].principal = GoalOf(k).principal
            /\ goals'[k][1].accrued_interest >= GoalOf(k).accrued_interest

C17_AmountFields == [](C17_Amounts) /\ [][C17_AmountsStep]_vars

C17_Witness ==
    /\ last.op = "compound_interest"
    /\ last.err = "Ok"
    /\ \E k \in Keys :
        /\ IsActive(k)
        /\ GoalOf(k).principal = Whale
        /\ GoalOf(k).interest_rate = 1
        /\ GoalOf(k).accrued_interest = Whale \div (SECONDS_PER_YEAR * BASIS_POINTS)
        /\ GoalOf(k).accrued_interest > 0

(* C18 (under SpecInterest): where it does not overflow, the interest      *)
(* computed by compound_interest and the pending interest computed by      *)
(* get_current_balance are both floor(balance * rate * elapsed /           *)
(* (SECONDS_PER_YEAR * BASIS_POINTS)), and for a longer elapsed time that  *)
(* does not overflow either the interest is at least as large.             *)
C18_Formula ==
    /\ calc.accrued = calc.pending
    /\ calc.accrued.err \in {"Ok", "Overflow"}
    /\ calc.accrued.err = "Ok" =>
          calc.accrued.val =
              (calc.balance * calc.rate * calc.elapsed)
                  \div (SECONDS_PER_YEAR * BASIS_POINTS)

C18_Step ==
    /\ calc'.elapsed > calc.elapsed
    /\ calc'.balance = calc.balance /\ calc'.rate = calc.rate
    /\ (calc.accrued.err = "Ok" /\ calc'.accrued.err = "Ok") =>
          calc'.accrued.val >= calc.accrued.val
    /\ (calc.pending.err = "Ok" /\ calc'.pending.err = "Ok") =>
          calc'.pending.val >= calc.pending.val

C18_Monotone == [](C18_Formula) /\ [][C18_Step]_vars

C18_Witness ==
    /\ calc.balance = Deposit
    /\ calc.rate = 500
    /\ calc.elapsed = 2
    /\ calc.accrued.err = "Ok"
    /\ calc.accrued.val > (Deposit * 500) \div (SECONDS_PER_YEAR * BASIS_POINTS)

(* C19: the token balance the contract holds is at least the sum of the    *)
(* principals of the goals that are still active.                          *)
RECURSIVE ActivePrincipal(_)
ActivePrincipal(ks) ==
    IF ks = {} THEN 0
    ELSE LET k == CHOOSE x \in ks : TRUE IN
         (IF IsActive(k) THEN GoalOf(k).principal ELSE 0)
             + ActivePrincipal(ks \ {k})

C19_Solvent == bal[SELF] >= ActivePrincipal(Keys)

(* C20: for an active goal, a clock value t1 from now on and a later clock *)
(* value t2, a withdraw at t2 that follows a successful compound_interest  *)
(* at t1 returns at least what a withdraw at t2 returns without it.        *)
C20_CompoundingNeverReduces ==
    \A k \in Keys :
        IsActive(k) =>
            \A t1 \in Times, t2 \in Times :
                (now <= t1 /\ t1 <= t2) =>
                    LET direct == withdraw(Store, t2, TRUE, k[1], k[2], "none")
                        c == compound_interest(Store, t1, k[1], k[2])
                        after == withdraw(c.st, t2, TRUE, k[1], k[2], "none")
                    IN
                    (c.err = "Ok" /\ direct.err = "Ok" /\ after.err = "Ok") =>
                        after.ret >= direct.ret

====
